---- MODULE Spec2Model ----
(***************************************************************************)
(* ParentmassMatch (matchms/similarity/ParentmassMatch.py): the boolean    *)
(* "parent masses within tolerance" similarity function, with its          *)
(* single-pair entry point compute_scores, its batch entry point           *)
(* compute_scores_parallel, and the two numba kernels parentmass_scores    *)
(* and parentmass_scores_symmetric.                                        *)
(*                                                                         *)
(* Parent masses and the tolerance are finite floats.  They are drawn from *)
(* a fixed-point grid (integers), on which float subtraction, abs and <=   *)
(* are exact; NaN and the infinities are outside the modelled domain.      *)
(* A spectrum is represented by what spectrum.get("parent_mass") returns:  *)
(* a mass, or None.  Arrays are 0-based as in the source; Python lists are *)
(* TLA+ sequences, so list element n of the source is element n+1 here.    *)
(***************************************************************************)
EXTENDS Integers, Sequences, FiniteSets, TLC

\* ---- bounds of the model ----
MaxLen == 2      \* longest reference / query collection
MaxMass == 2     \* parent masses are 0..MaxMass grid units
MaxTol == 1      \* tolerances are -1..MaxTol grid units

Masses == 0..MaxMass
\* Python's None, as a value that is no mass
None == 0 - 1
Tolerances == (0 - 1)..MaxTol
Spectrum == Masses \cup {None}
Collections == UNION {[1..n -> Spectrum] : n \in 0..MaxLen}

VARIABLES
    pc,                 \* position of the running call
    entry,              \* "none" | "single" | "parallel": entry point called
    reference, query,   \* the arguments of the call
    is_symmetric,       \* the is_symmetric argument
    tolerance,          \* self.tolerance
    parentmasses,       \* the list collect_parentmasses is building
    parentmasses_ref,   \* array collected from reference
    parentmasses_query, \* array collected from query
    scores,             \* the kernel's float matrix
    i, j,               \* the kernel's loop indices
    result,             \* value returned to the caller
    err,                \* exception that ended the call
    evals,              \* history: comparisons evaluated by the kernel, in order
    assigned,           \* history: cells of scores assigned by the kernel
    oob_writes,         \* history: writes that fell outside scores
    prev                \* the previous completed batch call, if any

vars == <<pc, entry, reference, query, is_symmetric, tolerance, parentmasses,
          parentmasses_ref, parentmasses_query, scores, i, j, result, err,
          evals, assigned, oob_writes, prev>>

\* ---- values ----
NoMatrix == [shape |-> <<>>, data |-> <<>>]
NoPrev == [kind |-> "none", reference |-> <<>>, query |-> <<>>,
           is_symmetric |-> FALSE, result |-> NoMatrix]

\* spectrum.get("parent_mass")
get_parent_mass(spectrum) == spectrum

\* abs()
Abs(x) == IF x < 0 THEN 0 - x ELSE x

\* a boolean stored into a float64 array: True -> 1.0, False -> 0.0
BoolToFloat(b) == IF b THEN 1 ELSE 0

\* numpy.zeros((n, m))
zeros_lost_columns(n, m) ==
    [shape |-> IF n = 0 THEN <<0, 0>> ELSE <<n, m>>,
     data |-> [c \in (0..(n - 1)) \X (0..(m - 1)) |-> 0]]
zeros(n, m) ==
    [shape |-> <<n, m>>,
     data |-> [c \in (0..(n - 1)) \X (0..(m - 1)) |-> 0]]

\* ndarray.astype(bool): nonzero -> True
astype_bool(a) ==
    [shape |-> a.shape, data |-> [c \in DOMAIN a.data |-> a.data[c] # 0]]

\* numpy.asarray(parentmasses): same values, same order
asarray(list) == [n \in 1..Len(list) |-> list[n]]

\* scores[r, c] = v, for an index inside the array
setitem(a, r, c, v) == [a EXCEPT !.data[<<r, c>>] = v]

InBounds(a, r, c) == r >= 0 /\ r < a.shape[1] /\ c >= 0 /\ c < a.shape[2]

\* ---- compute_scores: the single-pair entry point ----
compute_scores_strict(ref, qry, tol) ==
    LET parentmass_ref == get_parent_mass(ref)
        parentmass_query == get_parent_mass(qry)
    IN  IF parentmass_ref # None /\ parentmass_query # None
        THEN [raised |-> FALSE,
              value |-> (Abs(parentmass_ref - parentmass_query) < tol)]
        ELSE [raised |-> TRUE, value |-> FALSE]
compute_scores(ref, qry, tol) ==
    LET parentmass_ref == get_parent_mass(ref)
        parentmass_query == get_parent_mass(qry)
    IN  IF parentmass_ref # None /\ parentmass_query # None
        THEN [raised |-> FALSE,
              value |-> (Abs(parentmass_ref - parentmass_query) <= tol)]
        ELSE [raised |-> TRUE, value |-> FALSE]

\* ---- collect_parentmasses: one iteration of its loop ----
collect_step_unchecked(list, spectrum) ==
    LET parentmass == get_parent_mass(spectrum)
    IN  [raised |-> FALSE, list |-> Append(list, parentmass)]
collect_step(list, spectrum) ==
    LET parentmass == get_parent_mass(spectrum)
    IN  IF parentmass # None
        THEN [raised |-> FALSE, list |-> Append(list, parentmass)]
        ELSE [raised |-> TRUE, list |-> list]

\* ---- the comparison of parentmass_scores ----
parentmass_scores_cell_strict(parentmass_ref, parentmass_query, tol) ==
    Abs(parentmass_ref - parentmass_query) < tol
parentmass_scores_cell_noabs(parentmass_ref, parentmass_query, tol) ==
    (parentmass_ref - parentmass_query) <= tol
parentmass_scores_cell(parentmass_ref, parentmass_query, tol) ==
    Abs(parentmass_ref - parentmass_query) <= tol

\* ---- the comparison of parentmass_scores_symmetric ----
parentmass_scores_symmetric_cell_strict(parentmass_ref, parentmass_query, tol) ==
    Abs(parentmass_ref - parentmass_query) < tol
parentmass_scores_symmetric_cell(parentmass_ref, parentmass_query, tol) ==
    Abs(parentmass_ref - parentmass_query) <= tol

\* enumerate(parentmasses_query[row:], start=row): first column of a row
symmetric_start_zero(row) == 0
symmetric_start_next(row) == row + 1
symmetric_start(row) == row

\* scores[j, i] = scores[i, j], for j, i inside the array
mirror_dropped(a, r, c) == a
mirror(a, r, c) == [a EXCEPT !.data[<<c, r>>] = a.data[<<r, c>>]]

\* ---- initial state: an instance exists, no call made yet ----
Init ==
    /\ pc = "idle"
    /\ entry = "none"
    /\ reference = <<>>
    /\ query = <<>>
    /\ is_symmetric = FALSE
    /\ tolerance \in Tolerances
    /\ parentmasses = <<>>
    /\ parentmasses_ref = <<>>
    /\ parentmasses_query = <<>>
    /\ scores = NoMatrix
    /\ i = 0
    /\ j = 0
    /\ result = NoMatrix
    /\ err = "none"
    /\ evals = <<>>
    /\ assigned = {}
    /\ oob_writes = {}
    /\ prev = NoPrev

\* ---- compute_scores(reference, query) ----
CallSingle ==
    /\ pc = "idle"
    /\ \E ref \in Spectrum, qry \in Spectrum :
        LET r == compute_scores(ref, qry, tolerance)
        IN  /\ entry' = "single"
            /\ reference' = ref
            /\ query' = qry
            /\ IF r.raised
               THEN pc' = "error" /\ err' = "AssertionError" /\ result' = NoMatrix
               ELSE pc' = "done" /\ err' = "none" /\ result' = r.value
    /\ UNCHANGED <<is_symmetric, tolerance, parentmasses, parentmasses_ref,
                   parentmasses_query, scores, i, j, evals, assigned,
                   oob_writes, prev>>

\* ---- compute_scores_parallel(reference, query, is_symmetric) ----
StartParallel(ref, qry, sym) ==
    /\ entry' = "parallel"
    /\ reference' = ref
    /\ query' = qry
    /\ is_symmetric' = sym
    /\ parentmasses' = <<>>
    /\ parentmasses_ref' = <<>>
    /\ parentmasses_query' = <<>>
    /\ scores' = NoMatrix
    /\ i' = 0
    /\ j' = 0
    /\ result' = NoMatrix
    /\ err' = "none"
    /\ evals' = <<>>
    /\ assigned' = {}
    /\ oob_writes' = {}
    /\ pc' = "collect_ref"
    /\ UNCHANGED tolerance

CallParallel ==
    /\ pc = "idle"
    /\ \E ref \in Collections, qry \in Collections, sym \in BOOLEAN :
        StartParallel(ref, qry, sym)
    /\ UNCHANGED prev

Finished ==
    [kind |-> "none", reference |-> reference, query |-> query,
     is_symmetric |-> is_symmetric, result |-> result]

\* a second call on the same collections with the other is_symmetric
CallAgainOtherMode ==
    /\ pc = "done"
    /\ entry = "parallel"
    /\ prev = NoPrev
    /\ prev' = [Finished EXCEPT !.kind = "other_mode"]
    /\ StartParallel(reference, query, ~is_symmetric)

\* a second call with reference and query exchanged
CallAgainSwapped ==
    /\ pc = "done"
    /\ entry = "parallel"
    /\ prev = NoPrev
    /\ prev' = [Finished EXCEPT !.kind = "swapped"]
    /\ StartParallel(query, reference, is_symmetric)

Raise(e) ==
    /\ pc' = "error"
    /\ err' = e
    /\ result' = NoMatrix

\* parentmasses_ref = collect_parentmasses(reference)
CollectRef ==
    /\ pc = "collect_ref"
    /\ IF Len(parentmasses) < Len(reference)
       THEN LET r == collect_step(parentmasses, reference[Len(parentmasses) + 1])
            IN  /\ parentmasses' = r.list
                /\ IF r.raised
                   THEN Raise("AssertionError")
                   ELSE UNCHANGED <<pc, err, result>>
                /\ UNCHANGED parentmasses_ref
       ELSE /\ parentmasses_ref' = asarray(parentmasses)
            /\ parentmasses' = <<>>
            /\ pc' = "collect_query"
            /\ UNCHANGED <<err, result>>
    /\ UNCHANGED <<entry, reference, query, is_symmetric, tolerance,
                   parentmasses_query, scores, i, j, evals, assigned,
                   oob_writes, prev>>

\* parentmasses_query = collect_parentmasses(query)
CollectQuery ==
    /\ pc = "collect_query"
    /\ IF Len(parentmasses) < Len(query)
       THEN LET r == collect_step(parentmasses, query[Len(parentmasses) + 1])
            IN  /\ parentmasses' = r.list
                /\ IF r.raised
                   THEN Raise("AssertionError")
                   ELSE UNCHANGED <<pc, err, result>>
                /\ UNCHANGED parentmasses_query
       ELSE /\ parentmasses_query' = asarray(parentmasses)
            /\ parentmasses' = <<>>
            /\ pc' = "dispatch"
            /\ UNCHANGED <<err, result>>
    /\ UNCHANGED <<entry, reference, query, is_symmetric, tolerance,
                   parentmasses_ref, scores, i, j, evals, assigned,
                   oob_writes, prev>>

\* if is_symmetric: enter parentmass_scores_symmetric, else parentmass_scores;
\* either kernel first allocates scores
EnterKernel ==
    /\ pc = "dispatch"
    /\ scores' = zeros(Len(parentmasses_ref), Len(parentmasses_query))
    /\ i' = 0
    /\ IF is_symmetric
       THEN pc' = "symmetric" /\ j' = symmetric_start(0)
       ELSE pc' = "scores" /\ j' = 0
    /\ UNCHANGED <<entry, reference, query, is_symmetric, tolerance,
                   parentmasses, parentmasses_ref, parentmasses_query, result,
                   err, evals, assigned, oob_writes, prev>>

KernelFrame == <<entry, reference, query, is_symmetric, tolerance, parentmasses,
                 parentmasses_ref, parentmasses_query, prev>>

\* ---- parentmass_scores ----
ScoresStep ==
    /\ pc = "scores"
    /\ i < Len(parentmasses_ref)
    /\ j < Len(parentmasses_query)
    /\ LET v == BoolToFloat(parentmass_scores_cell(parentmasses_ref[i + 1],
                                parentmasses_query[j + 1], tolerance))
       IN  /\ scores' = setitem(scores, i, j, v)
           /\ evals' = Append(evals, [i |-> i, j |-> j, v |-> v])
    /\ assigned' = assigned \cup {<<i, j>>}
    /\ j' = j + 1
    /\ UNCHANGED <<pc, i, result, err, oob_writes>>
    /\ UNCHANGED KernelFrame

ScoresNextRow ==
    /\ pc = "scores"
    /\ i < Len(parentmasses_ref)
    /\ j >= Len(parentmasses_query)
    /\ i' = i + 1
    /\ j' = 0
    /\ UNCHANGED <<pc, scores, result, err, evals, assigned, oob_writes>>
    /\ UNCHANGED KernelFrame

ScoresReturn ==
    /\ pc = "scores"
    /\ i >= Len(parentmasses_ref)
    /\ result' = astype_bool(scores)
    /\ pc' = "done"
    /\ UNCHANGED <<scores, i, j, err, evals, assigned, oob_writes>>
    /\ UNCHANGED KernelFrame

\* ---- parentmass_scores_symmetric ----
SymmetricValue ==
    BoolToFloat(parentmass_scores_symmetric_cell(parentmasses_ref[i + 1],
                    parentmasses_query[j + 1], tolerance))

\* both writes fall inside scores
SymmetricStep ==
    /\ pc = "symmetric"
    /\ i < Len(parentmasses_ref)
    /\ j < Len(parentmasses_query)
    /\ InBounds(scores, j, i)
    /\ scores' = mirror(setitem(scores, i, j, SymmetricValue), i, j)
    /\ evals' = Append(evals, [i |-> i, j |-> j, v |-> SymmetricValue])
    /\ assigned' = assigned \cup {<<i, j>>, <<j, i>>}
    /\ j' = j + 1
    /\ UNCHANGED <<pc, i, result, err, oob_writes>>
    /\ UNCHANGED KernelFrame

\* scores[j, i] is outside scores.  numba compiles the kernel without bounds
\* checks, so the write lands outside the buffer; with bounds checking on
\* (NUMBA_BOUNDSCHECK, or the JIT disabled) it raises IndexError.
SymmetricOutOfBounds ==
    /\ pc = "symmetric"
    /\ i < Len(parentmasses_ref)
    /\ j < Len(parentmasses_query)
    /\ ~InBounds(scores, j, i)
    /\ scores' = setitem(scores, i, j, SymmetricValue)
    /\ evals' = Append(evals, [i |-> i, j |-> j, v |-> SymmetricValue])
    /\ assigned' = assigned \cup {<<i, j>>}
    /\ \E checked \in BOOLEAN :
        IF checked
        THEN Raise("IndexError") /\ UNCHANGED <<j, oob_writes>>
        ELSE /\ oob_writes' = oob_writes \cup {<<j, i>>}
             /\ j' = j + 1
             /\ UNCHANGED <<pc, result, err>>
    /\ UNCHANGED i
    /\ UNCHANGED KernelFrame

SymmetricNextRow ==
    /\ pc = "symmetric"
    /\ i < Len(parentmasses_ref)
    /\ j >= Len(parentmasses_query)
    /\ i' = i + 1
    /\ j' = symmetric_start(i + 1)
    /\ UNCHANGED <<pc, scores, result, err, evals, assigned, oob_writes>>
    /\ UNCHANGED KernelFrame

SymmetricReturn ==
    /\ pc = "symmetric"
    /\ i >= Len(parentmasses_ref)
    /\ result' = astype_bool(scores)
    /\ pc' = "done"
    /\ UNCHANGED <<scores, i, j, err, evals, assigned, oob_writes>>
    /\ UNCHANGED KernelFrame

Next ==
    \/ CallSingle
    \/ CallParallel
    \/ CallAgainOtherMode
    \/ CallAgainSwapped
    \/ CollectRef
    \/ CollectQuery
    \/ EnterKernel
    \/ ScoresStep
    \/ ScoresNextRow
    \/ ScoresReturn
    \/ SymmetricStep
    \/ SymmetricOutOfBounds
    \/ SymmetricNextRow
    \/ SymmetricReturn

Spec == Init /\ [][Next]_vars

\* ---- vocabulary of the properties ----
Returned == entry = "parallel" /\ pc = "done"
Rows == 0..(Len(reference) - 1)
Cols == 0..(Len(query) - 1)
AllDefined(spectrums) == \A n \in DOMAIN spectrums : spectrums[n] # None
Missing(spectrums) == \E n \in DOMAIN spectrums : spectrums[n] = None
FirstMissing(spectrums) ==
    CHOOSE n \in DOMAIN spectrums :
        spectrums[n] = None /\ \A k \in 1..(n - 1) : spectrums[k] # None
Within(a, b) == Abs(a - b) <= tolerance

\* C1: a batch call with is_symmetric=false returns a matrix over all N x M
\* index pairs whose entry [r,c] is true exactly when
\* |mass_ref[r] - mass_query[c]| <= tolerance (inclusive bound).
C1_EntryIffWithinTolerance ==
    (Returned /\ ~is_symmetric) =>
        /\ DOMAIN result.data = Rows \X Cols
        /\ \A r \in Rows, c \in Cols :
            result.data[<<r, c>>] = Within(reference[r + 1], query[c + 1])

C1_Witness ==
    /\ Returned /\ ~is_symmetric
    /\ Len(reference) # Len(query)
    /\ tolerance > 0
    /\ \E r \in Rows, c \in Cols :
        /\ Abs(reference[r + 1] - query[c + 1]) = tolerance
        /\ result.data[<<r, c>>] = TRUE
    /\ \E r \in Rows, c \in Cols :
        /\ Abs(reference[r + 1] - query[c + 1]) = tolerance + 1
        /\ result.data[<<r, c>>] = FALSE

\* C2: for a collection S, the matrix of compute_scores_parallel(S, S) with
\* is_symmetric=true equals, entry for entry, the one with is_symmetric=false.
C2_SymmetricModeEquivalence ==
    (Returned /\ prev.kind = "other_mode" /\ reference = query) =>
        result = prev.result

C2_Witness ==
    /\ Returned /\ prev.kind = "other_mode" /\ reference = query
    /\ is_symmetric /\ ~prev.is_symmetric
    /\ Len(reference) = MaxLen
    /\ \A r \in Rows : result.data[<<r, r>>] = TRUE
    /\ \E c \in DOMAIN result.data : result.data[c] = FALSE /\ c[1] < c[2]

\* C3: when an item of reference or query has no parent mass, the batch call
\* never gets past collect_parentmasses: no kernel is entered, no matrix is
\* allocated or returned, collection stops before the first missing item, and
\* the only way out is the assertion error; compute_scores with a missing
\* side ends in the assertion error without a value.
C3_MissingParentMassRaises ==
    /\ (entry = "parallel" /\ (Missing(reference) \/ Missing(query))) =>
        /\ pc \in {"collect_ref", "collect_query", "error"}
        /\ scores = NoMatrix /\ result = NoMatrix /\ evals = <<>>
        /\ pc = "error" => err = "AssertionError"
        /\ pc = "collect_query" =>
            /\ ~Missing(reference)
            /\ Len(parentmasses) < FirstMissing(query)
        /\ (pc = "collect_ref" /\ Missing(reference)) =>
            Len(parentmasses) < FirstMissing(reference)
    /\ (entry = "single" /\ (reference = None \/ query = None)) =>
        pc = "error" /\ err = "AssertionError" /\ result = NoMatrix

C3_Witness ==
    /\ entry = "parallel" /\ pc = "error" /\ err = "AssertionError"
    /\ AllDefined(reference)
    /\ Len(query) = MaxLen /\ FirstMissing(query) = MaxLen
    /\ result = NoMatrix /\ scores = NoMatrix

\* C4: when every item has a parent mass, a returned matrix has shape exactly
\* (N, M), and the call with is_symmetric=false never ends in an error, also
\* for N = 0 or M = 0.  (In symmetric mode the same holds unless 0 < N < M.)
C4_ShapeIsNByM ==
    (entry = "parallel" /\ AllDefined(reference) /\ AllDefined(query)) =>
        /\ pc = "done" =>
            /\ result.shape = <<Len(reference), Len(query)>>
            /\ DOMAIN result.data = Rows \X Cols
        /\ (~is_symmetric \/ Len(reference) = 0 \/ Len(reference) >= Len(query)) =>
            pc # "error" /\ err = "none" /\ oob_writes = {}

C4_Witness ==
    /\ Returned /\ ~is_symmetric
    /\ Len(reference) = 0 /\ Len(query) = 2
    /\ result.shape = <<0, 2>>

\* C5: exchanging reference and query transposes the batch result (default
\* is_symmetric=false), and compute_scores(a, b) = compute_scores(b, a).
C5_SwapTransposes ==
    /\ (Returned /\ prev.kind = "swapped" /\ ~is_symmetric) =>
        /\ result.shape = <<prev.result.shape[2], prev.result.shape[1]>>
        /\ \A r \in Rows, c \in Cols :
            result.data[<<r, c>>] = prev.result.data[<<c, r>>]
    /\ (entry = "single" /\ pc = "done") =>
        LET swapped == compute_scores(query, reference, tolerance)
        IN  ~swapped.raised /\ result = swapped.value

C5_Witness ==
    /\ Returned /\ prev.kind = "swapped" /\ ~is_symmetric
    /\ Len(reference) = 2 /\ Len(query) = MaxLen
    /\ \E c \in DOMAIN result.data : result.data[c] = TRUE
    /\ \E c \in DOMAIN result.data : result.data[c] = FALSE
    /\ reference[1] # reference[2]

\* C6: entry [r,c] of the batch result equals compute_scores(R[r], Q[c]) under
\* the same tolerance, with is_symmetric=false, and with is_symmetric=true
\* when R and Q are the same collection.
C6_SingleAgreesWithBatch ==
    (Returned /\ (~is_symmetric \/ reference = query)) =>
        \A r \in Rows, c \in Cols :
            LET single == compute_scores(reference[r + 1], query[c + 1], tolerance)
            IN  ~single.raised /\ result.data[<<r, c>>] = single.value

C6_Witness ==
    /\ Returned /\ is_symmetric /\ reference = query
    /\ Len(reference) = MaxLen
    /\ tolerance = 0
    /\ \E c \in DOMAIN result.data : result.data[c] = TRUE
    /\ \E c \in DOMAIN result.data : result.data[c] = FALSE

IsSymmetricMatrix(m) ==
    \A c \in DOMAIN m.data : m.data[c] = m.data[<<c[2], c[1]>>]

C8_SymmetricResult ==
    /\ [](Returned /\ is_symmetric /\ Len(reference) = Len(query)
            => IsSymmetricMatrix(result))
    /\ [][(pc = "symmetric" /\ pc' \in {"symmetric", "done"}
            /\ Len(reference) = Len(query))
            => \A c \in assigned : scores'.data[c] = scores.data[c]]_vars

C8_Witness ==
    /\ Returned /\ is_symmetric
    /\ Len(reference) = MaxLen /\ Len(query) = MaxLen
    /\ reference # query
    /\ result.data[<<0, 1>>] = TRUE /\ result.data[<<1, 0>>] = TRUE
    /\ \E c \in DOMAIN result.data : result.data[c] = FALSE

\* C9: in symmetric mode on arrays of equal length N the kernel evaluates the
\* comparison for the pairs (r,c) with r <= c in row-major order, each once
\* (N(N+1)/2 in all), never for c < r, stores each value in both [r,c] and
\* [c,r], and has assigned all N*N cells when it returns.
UpperPairs == {p \in Rows \X Cols : p[1] <= p[2]}

C9_UpperTriangleOnce ==
    (entry = "parallel" /\ is_symmetric /\ Len(reference) = Len(query)) =>
        /\ \A n \in DOMAIN evals :
            /\ evals[n].i <= evals[n].j
            /\ evals[n].v = BoolToFloat(Within(reference[evals[n].i + 1],
                                               query[evals[n].j + 1]))
            /\ scores.data[<<evals[n].i, evals[n].j>>] = evals[n].v
            /\ scores.data[<<evals[n].j, evals[n].i>>] = evals[n].v
        /\ \A n \in DOMAIN evals, k \in DOMAIN evals :
            n < k =>
                \/ evals[n].i < evals[k].i
                \/ evals[n].i = evals[k].i /\ evals[n].j < evals[k].j
        /\ pc = "done" =>
            /\ 2 * Len(evals) = Len(reference) * (Len(reference) + 1)
            /\ {<<evals[n].i, evals[n].j>> : n \in DOMAIN evals} = UpperPairs
            /\ assigned = Rows \X Cols

C9_Witness ==
    /\ Returned /\ is_symmetric
    /\ Len(reference) = MaxLen /\ Len(query) = MaxLen
    /\ 2 * Len(evals) = MaxLen * (MaxLen + 1)
    /\ Cardinality(assigned) = MaxLen * MaxLen

\* C10: in symmetric mode, for arrays of any lengths N and M, every write
\* scores[i,j] and scores[j,i] of the kernel targets an index inside the
\* N x M matrix.
C10_EveryWriteInBounds ==
    oob_writes = {} /\ err # "IndexError"

====
